---- MODULE Spec2Model ----
(***************************************************************************)
(* Model of automate_newsletter.py: the weekly newsletter run (main) and   *)
(* the functions it calls.  Text is modelled as a sequence of lexemes,     *)
(* Python's None / a missing value as the empty tuple (None) and a present *)
(* value v as <<v>> (Some(v)); percentages are integers in tenths of a     *)
(* percent (-32 is -3.2).                                                  *)
(***************************************************************************)
EXTENDS Integers, Sequences, FiniteSets, TLC

VARIABLES
    pc,                \* position of the run inside main() / the called function
    today,             \* datetime.now(), as a proleptic Gregorian ordinal
    template,          \* newsletter_template.html: None or Some(text)
    environ,           \* process environment: name -> None (unset) or Some(value)
    price_resp,        \* what the market-data API answered (None before the call)
    prices,            \* main's local `prices`: None or Some(mapping)
    fear_greed,        \* main's local `fear_greed`: None or Some(reading)
    last_friday,       \* get_week_range's local, None or Some(ordinal)
    next_friday,       \* get_week_range's local, None or Some(ordinal)
    week_range,        \* main's local `week_range`: None or Some(<<start, end>>)
    html,              \* main's local `html`: None or Some(text)
    get_resp,          \* deploy_to_github: what the GET answered (None before)
    twitter_thread,    \* main's local `twitter_thread`: None or Some(tweets)
    instagram_caption, \* main's local `instagram_caption`: None or Some(text)
    files,             \* files written by the run: name -> None or Some(content)
    net,               \* the network calls issued so far, in order
    out,               \* the reports printed by main's branches, in order
    exc,               \* the exception in flight: None or Some(<<type, origin>>)
    exit_code          \* the process's exit code: None while running

vars == <<pc, today, template, environ, price_resp, prices, fear_greed,
          last_friday, next_friday, week_range, html, get_resp, twitter_thread,
          instagram_caption, files, net, out, exc, exit_code>>

None == <<>>
Some(v) == <<v>>
Get(o) == o[1]

Abs(n) == IF n < 0 THEN -n ELSE n

\* -------------------------------------------------------------------------
\* Bounds of the model
\* -------------------------------------------------------------------------
\* the current dates tried are 2024-01-01 + 0..MaxDay (spans a leap day and a
\* year boundary)
MaxDay == 400

\* a market-data response of the price-fetch check omits at most MaxMissing of
\* the sixteen fields
MaxMissing == 2

\* a template of the rendering check is made of at most MaxPieces pieces
MaxPieces == 5

\* the percentage changes of the social-text check are -MaxChange..MaxChange
\* tenths of a percent
MaxChange == 2

\* -------------------------------------------------------------------------
\* datetime: ordinals, weekday, strftime
\* -------------------------------------------------------------------------
IsLeap(y) == y % 4 = 0 /\ (y % 100 # 0 \/ y % 400 = 0)

DaysBeforeYear(y) == (y - 1) * 365 + (y - 1) \div 4 - (y - 1) \div 100 + (y - 1) \div 400

DaysInMonth(y, m) ==
    IF m = 2 THEN (IF IsLeap(y) THEN 29 ELSE 28)
    ELSE IF m \in {4, 6, 9, 11} THEN 30 ELSE 31

RECURSIVE DaysBeforeMonth(_, _)
DaysBeforeMonth(y, m) == IF m = 1 THEN 0 ELSE DaysBeforeMonth(y, m - 1) + DaysInMonth(y, m - 1)

Ymd2Ord(y, m, d) == DaysBeforeYear(y) + DaysBeforeMonth(y, m) + d

\* datetime's _ord2ymd: the 400/100/4/1-year cycle decomposition
Ord2Ymd(ordinal) ==
    LET n0   == ordinal - 1
        n400 == n0 \div 146097
        r400 == n0 % 146097
        n100 == r400 \div 36524
        r100 == r400 % 36524
        n4   == r100 \div 1461
        r4   == r100 % 1461
        n1   == r4 \div 365
        r1   == r4 % 365
        year == n400 * 400 + 1 + n100 * 100 + n4 * 4 + n1
    IN  IF n1 = 4 \/ n100 = 4
        THEN [year |-> year - 1, month |-> 12, day |-> 31]
        ELSE LET month == CHOOSE m \in 1..12 :
                              /\ DaysBeforeMonth(year, m) <= r1
                              /\ r1 < DaysBeforeMonth(year, m) + DaysInMonth(year, m)
             IN  [year |-> year, month |-> month,
                  day |-> r1 - DaysBeforeMonth(year, month) + 1]

\* datetime.weekday(): Monday is 0 ... Sunday is 6
Weekday(ordinal) == (ordinal + 6) % 7

MonthName == <<"January", "February", "March", "April", "May", "June", "July",
               "August", "September", "October", "November", "December">>

Digit == <<"0", "1", "2", "3", "4", "5", "6", "7", "8", "9">>

\* the decimal digits of a natural number, most significant first
RECURSIVE Digits(_)
Digits(n) == IF n < 10 THEN <<Digit[n + 1]>> ELSE Digits(n \div 10) \o <<Digit[(n % 10) + 1]>>

\* str(n) of an int
Str(n) == IF n < 0 THEN <<"-">> \o Digits(-n) ELSE Digits(n)

\* strftime("%B %d"): full month name, day of month zero-padded to two digits
StrftimeBd(ordinal) ==
    LET d == Ord2Ymd(ordinal)
    IN  <<MonthName[d.month], " ", Digit[(d.day \div 10) + 1], Digit[(d.day % 10) + 1]>>

\* strftime("%B %d, %Y")
StrftimeBdY(ordinal) ==
    StrftimeBd(ordinal) \o <<", ">> \o Digits(Ord2Ymd(ordinal).year)

\* -------------------------------------------------------------------------
\* get_week_range
\* -------------------------------------------------------------------------
\* variant: Saturday (5) taken for Friday
days_since_friday_wrong_day(t) == (Weekday(t) - 5) % 7

days_since_friday(t) == (Weekday(t) - 4) % 7

get_week_range(t) ==
    LET lf == t - days_since_friday(t)
        nf == lf + 7
    IN  [last_friday |-> lf, next_friday |-> nf,
         ret |-> <<StrftimeBd(lf), StrftimeBdY(nf)>>]

Dates == {Ymd2Ord(2024, 1, 1) + k : k \in 0..MaxDay}

\* -------------------------------------------------------------------------
\* fetch_crypto_prices
\* -------------------------------------------------------------------------
\* A response of requests.get:
\*   kind "neterr"  : requests.get raised (no connection, timeout, ...)
\*   kind "badjson" : the body is not JSON, response.json() raises
\*   kind "json"    : body is the JSON object `data`
\* A JSON object is a function from its keys; a JSON number is an integer
\* except the percentage change, which is None (null) or Some(tenths).
NetErr == [kind |-> "neterr", data |-> None]
BadJson == [kind |-> "badjson", data |-> None]
Json(d) == [kind |-> "json", data |-> d]

ApiFields == {"usd", "usd_24h_change", "usd_24h_vol", "usd_market_cap"}

\* every field the `prices` literal reads from the response
Lookups == {"bitcoin", "ethereum", "tether", "dai"} \X ApiFields

\* variant: every asset's 24h change read with .get(field, 0)
DefaultedLookups_all_changes ==
    {"bitcoin", "ethereum", "tether", "dai"} \X {"usd_24h_change"}

\* the lookups written data[id].get(field, 0); the others are written
\* data[id][field], where a missing key raises KeyError
DefaultedLookups == {"tether", "dai"} \X {"usd_24h_change"}

\* data[id][field] when present
Item(data, id, field) == data[id][field]

\* data[id].get(field, default)
GetOr(data, id, field, default) ==
    IF field \in DOMAIN data[id] THEN data[id][field] ELSE default

\* whether evaluating the `prices` literal raises KeyError
RaisesKeyError(data) ==
    \/ \E p \in Lookups \ DefaultedLookups :
           p[1] \notin DOMAIN data \/ p[2] \notin DOMAIN data[p[1]]
    \/ \E p \in DefaultedLookups : p[1] \notin DOMAIN data

Change(data, id) ==
    IF <<id, "usd_24h_change">> \in DefaultedLookups
    THEN GetOr(data, id, "usd_24h_change", Some(0))
    ELSE Item(data, id, "usd_24h_change")

LiveRecord(data, id, ath, atl) ==
    [price      |-> Item(data, id, "usd"),
     change_24h |-> Change(data, id),
     volume_24h |-> Item(data, id, "usd_24h_vol"),
     market_cap |-> Item(data, id, "usd_market_cap"),
     ath        |-> ath,
     atl        |-> atl]

Symbols == {"btc", "eth", "usdt", "dai", "pls", "hex"}

Ok(v) == [ok |-> TRUE, exc |-> "", value |-> Some(v)]
Raise(e) == [ok |-> FALSE, exc |-> e, value |-> None]

fetch_crypto_prices(resp) ==
    IF resp.kind = "neterr" THEN Raise("ConnectionError")
    ELSE IF resp.kind = "badjson" THEN Raise("JSONDecodeError")
    ELSE IF RaisesKeyError(resp.data) THEN Raise("KeyError")
    ELSE LET data == resp.data
         IN  Ok([s \in Symbols |->
                CASE s = "btc"  -> LiveRecord(data, "bitcoin", "73750", "67.81")
                  [] s = "eth"  -> LiveRecord(data, "ethereum", "4878", "0.43")
                  [] s = "usdt" -> LiveRecord(data, "tether", "1.32", "0.57")
                  [] s = "dai"  -> LiveRecord(data, "dai", "1.22", "0.89")
                  [] s = "pls"  -> [price |-> "0.000089", change_24h |-> Some(124),
                                    ath |-> "0.000456", atl |-> "0.000021"]
                  [] s = "hex"  -> [price |-> "0.0041", change_24h |-> Some(87),
                                    ath |-> "0.5701", atl |-> "0.00019"]])

\* -------------------------------------------------------------------------
\* fetch_fear_greed_index
\* -------------------------------------------------------------------------
\* The body is a JSON object; body["data"] is a list of entries; an entry's
\* "value" is a string (a sequence of characters) and its
\* "value_classification" is None (null) or Some(text).
IsDecimal(str) == Len(str) > 0 /\ \A i \in 1..Len(str) : \E d \in 1..10 : Digit[d] = str[i]

DigitValue(c) == (CHOOSE d \in 1..10 : Digit[d] = c) - 1

\* int(str) of a string of decimal digits
RECURSIVE ParseInt(_)
ParseInt(str) ==
    IF Len(str) = 1 THEN DigitValue(str[1])
    ELSE ParseInt(SubSeq(str, 1, Len(str) - 1)) * 10 + DigitValue(str[Len(str)])

fetch_fear_greed_index(resp) ==
    IF resp.kind = "neterr" THEN Raise("ConnectionError")
    ELSE IF resp.kind = "badjson" THEN Raise("JSONDecodeError")
    ELSE IF "data" \notin DOMAIN resp.data THEN Raise("KeyError")
    ELSE IF Len(resp.data["data"]) = 0 THEN Raise("IndexError")
    ELSE LET entry == resp.data["data"][1]
         IN  IF "value" \notin DOMAIN entry THEN Raise("KeyError")
             ELSE IF ~IsDecimal(entry["value"]) THEN Raise("ValueError")
             ELSE IF "value_classification" \notin DOMAIN entry THEN Raise("KeyError")
             ELSE Ok([value |-> ParseInt(entry["value"]),
                      classification |-> entry["value_classification"]])

\* -------------------------------------------------------------------------
\* Text: str.replace, str.upper, formatting
\* -------------------------------------------------------------------------
StartsWith(str, old) == Len(str) >= Len(old) /\ SubSeq(str, 1, Len(old)) = old

\* the places of str where old occurs
Matches(str, old) == {i \in 1..Len(str) : StartsWith(SubSeq(str, i, Len(str)), old)}

\* the number of places of str where tok occurs
Occurrences(str, tok) == Cardinality(Matches(str, tok))

\* str.replace(old, new) from position `from` on: the leftmost occurrence is
\* replaced, and the search goes on after it (occurrences do not overlap)
RECURSIVE ReplaceFrom(_, _, _, _)
ReplaceFrom(str, old, new, from) ==
    LET later == {i \in Matches(str, old) : i >= from}
    IN  IF later = {} THEN SubSeq(str, from, Len(str))
        ELSE LET i == CHOOSE m \in later : \A k \in later : m <= k
             IN  SubSeq(str, from, i - 1) \o new
                    \o ReplaceFrom(str, old, new, i + Len(old))

\* str.replace(old, new) for a non-empty old
Replace(str, old, new) == ReplaceFrom(str, old, new, 1)

\* str.upper(), lexeme by lexeme
UpperLexeme(l) ==
    CASE l = "Fear" -> "FEAR"
      [] l = "Greed" -> "GREED"
      [] l = "Extreme" -> "EXTREME"
      [] l = "Neutral" -> "NEUTRAL"
      [] l = "date_range" -> "DATE_RANGE"
      [] l = "fear_greed_class" -> "FEAR_GREED_CLASS"
      [] OTHER -> l

Upper(str) == [i \in 1..Len(str) |-> UpperLexeme(str[i])]

\* str(x) of a percentage: None prints as None, a float with one decimal
FloatStr(x) ==
    IF x = None THEN <<"None">>
    ELSE (IF Get(x) < 0 THEN <<"-">> ELSE <<>>)
            \o Digits(Abs(Get(x)) \div 10) \o <<".", Digit[(Abs(Get(x)) % 10) + 1]>>

\* -------------------------------------------------------------------------
\* generate_html
\* -------------------------------------------------------------------------
PH_DATE_RANGE == <<"{{", "DATE_RANGE", "}}">>
PH_PRICE_DATA == <<"// ", "{{", "PRICE_DATA", "}}">>
PH_FEAR_GREED_VALUE == <<"{{", "FEAR_GREED_VALUE", "}}">>
PH_FEAR_GREED_CLASS == <<"{{", "FEAR_GREED_CLASS", "}}">>

Placeholders == {PH_DATE_RANGE, PH_PRICE_DATA, PH_FEAR_GREED_VALUE, PH_FEAR_GREED_CLASS}

DateRangeText(wr) == wr[1] \o <<" - ">> \o wr[2]

PriceJsLine(p, sym) ==
    <<sym, ": { price: ", p[sym].price, ", change: ">> \o FloatStr(p[sym].change_24h)
        \o <<", ath: ", p[sym].ath, ", atl: ", p[sym].atl, " }">>

price_js(p) ==
    <<"const realTimePrices = {">>
        \o PriceJsLine(p, "btc") \o <<",">> \o PriceJsLine(p, "eth") \o <<",">>
        \o PriceJsLine(p, "pls") \o <<",">> \o PriceJsLine(p, "hex") \o <<",">>
        \o PriceJsLine(p, "usdt") \o <<",">> \o PriceJsLine(p, "dai")
        \o <<"};">>

\* variant: the classification placeholder is not substituted
ReplaceClass_skipped(str, fg) == str

\* html.replace('{{FEAR_GREED_CLASS}}', fear_greed['classification'].upper())
ReplaceClass(str, fg) == Replace(str, PH_FEAR_GREED_CLASS, Upper(Get(fg.classification)))

\* the body of generate_html once the template has been read
generate_html(tmpl, p, fg, wr) ==
    LET h1 == Replace(tmpl, PH_DATE_RANGE, DateRangeText(wr))
        h2 == Replace(h1, PH_PRICE_DATA, price_js(p))
        h3 == Replace(h2, PH_FEAR_GREED_VALUE, Str(fg.value))
    IN  IF fg.classification = None THEN Raise("AttributeError")
        ELSE Ok(ReplaceClass(h3, fg))

\* -------------------------------------------------------------------------
\* Social text: a text is a sequence of lines, a line a sequence of lexemes
\* -------------------------------------------------------------------------
\* os.getenv(name): None when the name is not set
getenv(env, name) == env[name]

\* os.getenv(name, default)
getenv_default(env, name, default) == IF env[name] # None THEN Get(env[name]) ELSE default

\* Python's truth value of an optional string
Truthy(o) == o # None /\ Get(o) # ""

\* format(x, "+.1f"): always signed, one decimal
SignedFloat(x) ==
    (IF x < 0 THEN <<"-">> ELSE <<"+">>)
        \o Digits(Abs(x) \div 10) \o <<".", Digit[(Abs(x) % 10) + 1]>>

\* format(abs(x), ".1f")
AbsFloat(x) == Digits(Abs(x) \div 10) \o <<".", Digit[(Abs(x) % 10) + 1]>>

\* "🟢" if change > 0 else "🔴"
emoji(change) == IF change > 0 THEN "GREEN" ELSE "RED"

\* 'up' if change > 0 else 'down'
direction(change) == IF change > 0 THEN "up" ELSE "down"

\* the assets whose change the social text compares with 0
SocialSymbols == {"btc", "eth", "pls", "hex"}

\* comparing None with 0 raises TypeError
SocialRaises(p) == \E sym \in SocialSymbols : p[sym].change_24h = None

MoversLine(label, rec, fmt) ==
    <<label, ": $", fmt, rec.price, " (">> \o SignedFloat(Get(rec.change_24h))
        \o <<"%) ", emoji(Get(rec.change_24h))>>

generate_twitter_thread(p, wr, env) ==
    IF SocialRaises(p) THEN Raise("TypeError")
    ELSE Ok(<< << <<"CRYPTO INTEL WEEKLY">>, DateRangeText(wr), <<"Thread below">> >>,
               << <<"PRICE MOVERS">>,
                  MoversLine("BTC", p["btc"], ",.0f"),
                  MoversLine("ETH", p["eth"], ",.2f"),
                  MoversLine("PLS", p["pls"], ".6f"),
                  MoversLine("HEX", p["hex"], ".4f"),
                  <<"#Bitcoin #Ethereum #Crypto">> >>,
               << <<"Read the full newsletter with charts & analysis:">>,
                  <<"https://", getenv_default(env, "GITHUB_USERNAME", "your-username"),
                    ".github.io/crypto-intel-weekly">>,
                  <<"#CryptoNews #Newsletter">> >> >>)

\* the text save_twitter_content writes
RECURSIVE TwitterFile(_, _)
TwitterFile(tweets, i) ==
    IF i > Len(tweets) THEN <<>>
    ELSE << <<"TWEET ">> \o Str(i) \o <<":">> >> \o tweets[i] \o << <<"==========">> >>
            \o TwitterFile(tweets, i + 1)

CaptionLine(icon, label, rec) ==
    <<icon, label, direction(Get(rec.change_24h))>> \o AbsFloat(Get(rec.change_24h)) \o <<"%">>

generate_instagram_caption(p, wr) ==
    IF SocialRaises(p) THEN Raise("TypeError")
    ELSE Ok(<< <<"CRYPTO INTEL WEEKLY | ">> \o DateRangeText(wr),
               <<"This week in crypto:">>,
               CaptionLine("CHART", "BTC", p["btc"]) \o <<" to $", ",.0f", p["btc"].price>>,
               CaptionLine("CHART", "ETH", p["eth"]) \o <<" to $", ",.2f", p["eth"].price>>,
               CaptionLine("ROCKET", "PLS", p["pls"]),
               CaptionLine("GEM", "HEX", p["hex"]),
               <<"Full newsletter: Link in bio">> >>)

\* -------------------------------------------------------------------------
\* The run of main(): inputs the environment can supply
\* -------------------------------------------------------------------------
\* a complete market-data body; chg is bitcoin's usd_24h_change
FullData(chg) ==
    [id \in {"bitcoin", "ethereum", "tether", "dai"} |->
        [f \in ApiFields |->
            IF f = "usd_24h_change"
            THEN (IF id = "bitcoin" THEN chg ELSE Some(12))
            ELSE IF f = "usd" THEN "67000.5" ELSE "1000000"]]

\* `data` without the fields named in `missing` (pairs <<id, field>>)
Without(data, missing) ==
    [id \in DOMAIN data |->
        [f \in {g \in DOMAIN data[id] : <<id, g>> \notin missing} |-> data[id][f]]]

\* `data` without the asset `id` altogether
WithoutAsset(data, id) == [i \in DOMAIN data \ {id} |-> data[i]]

MainPriceResponses ==
    {NetErr, BadJson}
        \cup {Json(FullData(c)) : c \in {Some(-32), Some(0), Some(50), None}}
        \cup {Json(Without(FullData(Some(50)), {<<"tether", "usd_24h_change">>})),
              Json(Without(FullData(Some(50)), {<<"ethereum", "usd_market_cap">>})),
              Json(WithoutAsset(FullData(Some(50)), "bitcoin"))}

FngBody(value, classification) ==
    [k \in {"data"} |-> << [f \in {"value", "value_classification"} |->
                              IF f = "value" THEN value ELSE classification] >>]

MainFngResponses ==
    {NetErr, BadJson,
     Json(FngBody(<<"4", "5">>, Some(<<"Fear">>))),
     Json(FngBody(<<"0", "7">>, Some(<<"Extreme", " ", "Greed">>))),
     Json(FngBody(<<"4", "5">>, None)),
     Json(FngBody(<<"n", "a">>, Some(<<"Fear">>))),
     Json([k \in {"data"} |-> <<>>]),
     Json([k \in {"data"} |-> << [f \in {"value"} |-> <<"4", "5">>] >>])}

MainTemplates ==
    {<<"<h1>">> \o PH_DATE_RANGE \o <<"<script>">> \o PH_PRICE_DATA \o <<"</script>">>
        \o PH_FEAR_GREED_VALUE \o <<" ">> \o PH_FEAR_GREED_CLASS,
     <<"<h1>">> \o PH_DATE_RANGE \o <<"</h1>">>}

MainDates == {Ymd2Ord(2024, 1, 5), Ymd2Ord(2024, 2, 29)}

\* the environments: each of the two names unset, set to "", or set
Environs == [{"GITHUB_TOKEN", "GITHUB_USERNAME"} -> {None, Some(""), Some("sanj")}]

\* what the GET of the remote file answers
GithubGetResponses ==
    {NetErr, BadJson,
     Json([k \in {"sha"} |-> "sha-1"]),
     Json([k \in {"sha"} |-> "sha-2"]),
     Json([k \in {"message"} |-> "Not Found"])}

\* what the PUT answers: it raises, or a status code with a JSON or non-JSON body
GithubPutResponses ==
    {[kind |-> "neterr", status_code |-> 0]}
        \cup [kind : {"json", "badjson"}, status_code : {200, 201, 409, 422}]

\* -------------------------------------------------------------------------
\* The run of main(): steps
\* -------------------------------------------------------------------------
Call(method, host, body) == [method |-> method, host |-> host, body |-> body]

FileNames == {"index.html", "twitter_thread.txt", "instagram_caption.txt"}

WriteFile(fs, name, content) == [fs EXCEPT ![name] = Some(content)]

\* an exception of type e raised inside main's try block by `origin` (what the
\* traceback names): control goes to the handler
RaiseInMain(e, origin) == pc' = "except" /\ exc' = Some(<<e, origin>>)

Init ==
    /\ pc = "fetch_prices"
    /\ today \in MainDates
    /\ template \in {None} \cup {Some(t) : t \in MainTemplates}
    /\ environ \in Environs
    /\ price_resp = None
    /\ prices = None
    /\ fear_greed = None
    /\ last_friday = None
    /\ next_friday = None
    /\ week_range = None
    /\ html = None
    /\ get_resp = None
    /\ twitter_thread = None
    /\ instagram_caption = None
    /\ files = [f \in FileNames |-> None]
    /\ net = <<>>
    /\ out = <<>>
    /\ exc = None
    /\ exit_code = None

\* variant: a failed price fetch is replaced by fallback prices and the run goes on
main_fetch_prices_falls_back ==
    /\ pc = "fetch_prices"
    /\ \E resp \in MainPriceResponses :
        LET r == fetch_crypto_prices(resp)
        IN  /\ price_resp' = Some(resp)
            /\ net' = Append(net, Call("GET", "api.coingecko.com", None))
            /\ prices' = IF r.ok THEN r.value
                          ELSE fetch_crypto_prices(Json(FullData(Some(0)))).value
            /\ pc' = "fetch_fear_greed"
    /\ UNCHANGED <<today, template, environ, fear_greed, last_friday, next_friday,
                   week_range, html, get_resp, twitter_thread, instagram_caption,
                   files, out, exc, exit_code>>

\* prices = fetch_crypto_prices()
main_fetch_prices ==
    /\ pc = "fetch_prices"
    /\ \E resp \in MainPriceResponses :
        LET r == fetch_crypto_prices(resp)
        IN  /\ price_resp' = Some(resp)
            /\ net' = Append(net, Call("GET", "api.coingecko.com", None))
            /\ IF r.ok
               THEN prices' = r.value /\ pc' = "fetch_fear_greed" /\ exc' = exc
               ELSE prices' = prices /\ RaiseInMain(r.exc, "fetch_crypto_prices")
    /\ UNCHANGED <<today, template, environ, fear_greed, last_friday, next_friday,
                   week_range, html, get_resp, twitter_thread, instagram_caption,
                   files, out, exit_code>>

\* fear_greed = fetch_fear_greed_index()
main_fetch_fear_greed ==
    /\ pc = "fetch_fear_greed"
    /\ \E resp \in MainFngResponses :
        LET r == fetch_fear_greed_index(resp)
        IN  /\ net' = Append(net, Call("GET", "api.alternative.me", None))
            /\ IF r.ok
               THEN fear_greed' = r.value /\ pc' = "get_week_range" /\ exc' = exc
               ELSE fear_greed' = fear_greed /\ RaiseInMain(r.exc, "fetch_fear_greed_index")
    /\ UNCHANGED <<today, template, environ, price_resp, prices, last_friday,
                   next_friday, week_range, html, get_resp, twitter_thread,
                   instagram_caption, files, out, exit_code>>

\* week_range = get_week_range()
main_get_week_range ==
    /\ pc = "get_week_range"
    /\ LET r == get_week_range(today)
       IN  /\ last_friday' = Some(r.last_friday)
           /\ next_friday' = Some(r.next_friday)
           /\ week_range' = Some(r.ret)
    /\ pc' = "check_template"
    /\ UNCHANGED <<today, template, environ, price_resp, prices, fear_greed, html,
                   get_resp, twitter_thread, instagram_caption, files, net, out,
                   exc, exit_code>>

\* variant: a missing template ends the run after the warning
main_check_template_missing_returns ==
    /\ pc = "check_template"
    /\ IF template # None
       THEN pc' = "generate_html" /\ out' = out
       ELSE pc' = "return" /\ out' = Append(out, <<"template not found">>)
    /\ UNCHANGED <<today, template, environ, price_resp, prices, fear_greed,
                   last_friday, next_friday, week_range, html, get_resp,
                   twitter_thread, instagram_caption, files, net, exc, exit_code>>

\* if os.path.exists('newsletter_template.html'): ... else: warn
main_check_template ==
    /\ pc = "check_template"
    /\ IF template # None
       THEN pc' = "generate_html" /\ out' = out
       ELSE pc' = "twitter" /\ out' = Append(out, <<"template not found">>)
    /\ UNCHANGED <<today, template, environ, price_resp, prices, fear_greed,
                   last_friday, next_friday, week_range, html, get_resp,
                   twitter_thread, instagram_caption, files, net, exc, exit_code>>

\* html = generate_html(prices, fear_greed, week_range); opening the template
\* may fail although it exists
main_generate_html ==
    /\ pc = "generate_html"
    /\ \E opened \in BOOLEAN :
        LET r == generate_html(Get(template), Get(prices), Get(fear_greed), Get(week_range))
        IN  IF ~opened THEN html' = html /\ RaiseInMain("OSError", "generate_html")
            ELSE IF r.ok THEN html' = r.value /\ pc' = "write_index" /\ exc' = exc
            ELSE html' = html /\ RaiseInMain(r.exc, "generate_html")
    /\ UNCHANGED <<today, template, environ, price_resp, prices, fear_greed,
                   last_friday, next_friday, week_range, get_resp, twitter_thread,
                   instagram_caption, files, net, out, exit_code>>

\* with open('index.html', 'w') as f: f.write(html)
main_write_index ==
    /\ pc = "write_index"
    /\ \E opened \in BOOLEAN :
        IF opened
        THEN /\ files' = WriteFile(files, "index.html", Get(html))
             /\ out' = Append(out, <<"HTML generated">>)
             /\ pc' = "check_credentials" /\ exc' = exc
        ELSE files' = files /\ out' = out /\ RaiseInMain("OSError", "main: index.html")
    /\ UNCHANGED <<today, template, environ, price_resp, prices, fear_greed,
                   last_friday, next_friday, week_range, html, get_resp,
                   twitter_thread, instagram_caption, net, exit_code>>

\* variant: `or` for `and`
should_deploy_either(env) ==
    Truthy(getenv(env, "GITHUB_TOKEN")) \/ Truthy(getenv(env, "GITHUB_USERNAME"))

\* if github_token and github_username
should_deploy(env) ==
    Truthy(getenv(env, "GITHUB_TOKEN")) /\ Truthy(getenv(env, "GITHUB_USERNAME"))

main_check_credentials ==
    /\ pc = "check_credentials"
    /\ IF should_deploy(environ)
       THEN pc' = "deploy_get" /\ out' = out
       ELSE pc' = "twitter" /\ out' = Append(out, <<"credentials not found">>)
    /\ UNCHANGED <<today, template, environ, price_resp, prices, fear_greed,
                   last_friday, next_friday, week_range, html, get_resp,
                   twitter_thread, instagram_caption, files, net, exc, exit_code>>

\* -------------------------------------------------------------------------
\* deploy_to_github(html, github_token, github_username)
\* -------------------------------------------------------------------------
\* base64.b64encode(html.encode()).decode()
b64encode(text) == [base64 |-> text]

\* variant: the token is never read from the response
sha_of_empty(resp) == ""

\* response.json().get('sha', '')
sha_of(resp) == IF "sha" \in DOMAIN resp.data THEN resp.data["sha"] ELSE ""

\* response = requests.get(url, headers=headers); sha = response.json().get('sha', '')
deploy_get ==
    /\ pc = "deploy_get"
    /\ \E resp \in GithubGetResponses :
        /\ net' = Append(net, Call("GET", "api.github.com", None))
        /\ IF resp.kind = "neterr" THEN get_resp' = get_resp /\ RaiseInMain("ConnectionError", "deploy_to_github")
           ELSE IF resp.kind = "badjson"
                THEN get_resp' = Some(resp) /\ RaiseInMain("JSONDecodeError", "deploy_to_github")
                ELSE get_resp' = Some(resp) /\ pc' = "deploy_put" /\ exc' = exc
    /\ UNCHANGED <<today, template, environ, price_resp, prices, fear_greed,
                   last_friday, next_friday, week_range, html, twitter_thread,
                   instagram_caption, files, out, exit_code>>

put_body(text, resp) ==
    [message |-> <<"Auto-update newsletter - ">> \o Digits(Ord2Ymd(today).year),
     content |-> b64encode(text),
     sha     |-> sha_of(resp)]

\* variant: a refused PUT is reported and then raised
deploy_put_raises_after_report ==
    /\ pc = "deploy_put"
    /\ \E resp \in GithubPutResponses :
        /\ net' = Append(net, Call("PUT", "api.github.com",
                                   Some(put_body(Get(html), Get(get_resp)))))
        /\ IF resp.kind = "neterr" THEN out' = out /\ RaiseInMain("ConnectionError", "deploy_to_github")
           ELSE IF resp.status_code \in {200, 201}
                THEN out' = Append(out, <<"deployed">>) /\ pc' = "twitter" /\ exc' = exc
                ELSE IF resp.kind = "badjson"
                     THEN out' = out /\ RaiseInMain("JSONDecodeError", "deploy_to_github")
                     ELSE out' = Append(out, <<"deployment failed">>)
                            /\ RaiseInMain("RuntimeError", "deploy_to_github")
    /\ UNCHANGED <<today, template, environ, price_resp, prices, fear_greed,
                   last_friday, next_friday, week_range, html, get_resp,
                   twitter_thread, instagram_caption, files, exit_code>>

\* response = requests.put(url, headers=headers, json=data), then the report
deploy_put ==
    /\ pc = "deploy_put"
    /\ \E resp \in GithubPutResponses :
        /\ net' = Append(net, Call("PUT", "api.github.com",
                                   Some(put_body(Get(html), Get(get_resp)))))
        /\ IF resp.kind = "neterr" THEN out' = out /\ RaiseInMain("ConnectionError", "deploy_to_github")
           ELSE IF resp.status_code \in {200, 201}
                THEN out' = Append(out, <<"deployed">>) /\ pc' = "twitter" /\ exc' = exc
                ELSE IF resp.kind = "badjson"
                     THEN out' = out /\ RaiseInMain("JSONDecodeError", "deploy_to_github")
                     ELSE out' = Append(out, <<"deployment failed">>)
                            /\ pc' = "twitter" /\ exc' = exc
    /\ UNCHANGED <<today, template, environ, price_resp, prices, fear_greed,
                   last_friday, next_friday, week_range, html, get_resp,
                   twitter_thread, instagram_caption, files, exit_code>>

\* -------------------------------------------------------------------------
\* The run of main(): social text, summary, handler, exit
\* -------------------------------------------------------------------------
\* twitter_thread = generate_twitter_thread(...); save_twitter_content(...)
main_twitter ==
    /\ pc = "twitter"
    /\ \E opened \in BOOLEAN :
        LET r == generate_twitter_thread(Get(prices), Get(week_range), environ)
        IN  IF ~r.ok
            THEN twitter_thread' = twitter_thread /\ files' = files
                    /\ RaiseInMain(r.exc, "generate_twitter_thread")
            ELSE IF ~opened
            THEN twitter_thread' = r.value /\ files' = files
                    /\ RaiseInMain("OSError", "save_twitter_content")
            ELSE /\ twitter_thread' = r.value
                 /\ files' = WriteFile(files, "twitter_thread.txt",
                                       TwitterFile(Get(r.value), 1))
                 /\ pc' = "instagram" /\ exc' = exc
    /\ UNCHANGED <<today, template, environ, price_resp, prices, fear_greed,
                   last_friday, next_friday, week_range, html, get_resp,
                   instagram_caption, net, out, exit_code>>

\* instagram_caption = generate_instagram_caption(...); write instagram_caption.txt
main_instagram ==
    /\ pc = "instagram"
    /\ \E opened \in BOOLEAN :
        LET r == generate_instagram_caption(Get(prices), Get(week_range))
        IN  IF ~r.ok
            THEN instagram_caption' = instagram_caption /\ files' = files
                    /\ RaiseInMain(r.exc, "generate_instagram_caption")
            ELSE IF ~opened
            THEN instagram_caption' = r.value /\ files' = files
                    /\ RaiseInMain("OSError", "main: instagram_caption.txt")
            ELSE /\ instagram_caption' = r.value
                 /\ files' = WriteFile(files, "instagram_caption.txt", Get(r.value))
                 /\ pc' = "summary" /\ exc' = exc
    /\ UNCHANGED <<today, template, environ, price_resp, prices, fear_greed,
                   last_friday, next_friday, week_range, html, get_resp,
                   twitter_thread, net, out, exit_code>>

\* 5. Summary: the closing prints
main_summary ==
    /\ pc = "summary"
    /\ out' = Append(out, <<"AUTOMATION COMPLETE">>)
    /\ pc' = "return"
    /\ UNCHANGED <<today, template, environ, price_resp, prices, fear_greed,
                   last_friday, next_friday, week_range, html, get_resp,
                   twitter_thread, instagram_caption, files, net, exc, exit_code>>

\* variant: `except requests.ConnectionError`
Catches_network_errors_only(e) == e = "ConnectionError"

\* `except Exception`: every exception type the steps raise derives from Exception
Catches(e) == TRUE

\* except Exception as e: print the error and the traceback
main_except ==
    /\ pc = "except"
    /\ IF Catches(Get(exc)[1])
       THEN out' = Append(out, <<"Error occurred", Get(exc)[1], Get(exc)[2]>>) /\ exc' = None
       ELSE out' = out /\ exc' = exc
    /\ pc' = "return"
    /\ UNCHANGED <<today, template, environ, price_resp, prices, fear_greed,
                   last_friday, next_friday, week_range, html, get_resp,
                   twitter_thread, instagram_caption, files, net, exit_code>>

\* main() is over: the interpreter exits, 1 on an uncaught exception
process_exit ==
    /\ pc = "return"
    /\ exit_code' = Some(IF exc = None THEN 0 ELSE 1)
    /\ pc' = "done"
    /\ UNCHANGED <<today, template, environ, price_resp, prices, fear_greed,
                   last_friday, next_friday, week_range, html, get_resp,
                   twitter_thread, instagram_caption, files, net, out, exc>>

Next ==
    \/ main_fetch_prices
    \/ main_fetch_fear_greed
    \/ main_get_week_range
    \/ main_check_template
    \/ main_generate_html
    \/ main_write_index
    \/ main_check_credentials
    \/ deploy_get
    \/ deploy_put
    \/ main_twitter
    \/ main_instagram
    \/ main_summary
    \/ main_except
    \/ process_exit

Spec == Init /\ [][Next]_vars

\* -------------------------------------------------------------------------
\* The functions on their own: the inputs are drawn by the initial state and
\* one step calls the function
\* -------------------------------------------------------------------------
NoEnviron == [n \in {"GITHUB_TOKEN", "GITHUB_USERNAME"} |-> None]

\* everything main() has not touched yet
Untouched ==
    /\ last_friday = None
    /\ next_friday = None
    /\ html = None
    /\ get_resp = None
    /\ twitter_thread = None
    /\ instagram_caption = None
    /\ files = [f \in FileNames |-> None]
    /\ net = <<>>
    /\ out = <<>>
    /\ exc = None
    /\ exit_code = None

\* ---- get_week_range ----
InitWeek ==
    /\ pc = "get_week_range"
    /\ today \in Dates
    /\ template = None
    /\ environ = NoEnviron
    /\ price_resp = None
    /\ prices = None
    /\ fear_greed = None
    /\ week_range = None
    /\ Untouched

SpecWeek == InitWeek /\ [][main_get_week_range]_vars

\* ---- fetch_crypto_prices ----
\* the bodies that omit at most MaxMissing fields, or one asset altogether
FetchBodies ==
    {Without(FullData(Some(50)), m) :
        m \in {x \in SUBSET Lookups : Cardinality(x) <= MaxMissing}}
      \cup {WithoutAsset(FullData(Some(50)), id) : id \in DOMAIN FullData(Some(50))}

InitFetch ==
    /\ pc = "call_fetch_crypto_prices"
    /\ today \in MainDates
    /\ template = None
    /\ environ = NoEnviron
    /\ price_resp \in {Some(NetErr), Some(BadJson)} \cup {Some(Json(d)) : d \in FetchBodies}
    /\ prices = None
    /\ fear_greed = None
    /\ week_range = None
    /\ Untouched

call_fetch_crypto_prices ==
    /\ pc = "call_fetch_crypto_prices"
    /\ LET r == fetch_crypto_prices(Get(price_resp))
       IN  IF r.ok
           THEN prices' = r.value /\ pc' = "returned" /\ exc' = exc
           ELSE prices' = prices /\ pc' = "raised" /\ exc' = Some(<<r.exc, "fetch_crypto_prices">>)
    /\ net' = Append(net, Call("GET", "api.coingecko.com", None))
    /\ UNCHANGED <<today, template, environ, price_resp, fear_greed, last_friday,
                   next_friday, week_range, html, get_resp, twitter_thread,
                   instagram_caption, files, out, exit_code>>

SpecFetch == InitFetch /\ [][call_fetch_crypto_prices]_vars

\* ---- generate_html ----
TemplatePieces ==
    Placeholders \cup {<<"x">>, <<"{{", "DATE_RANGE">>, <<"}}">>}

RECURSIVE Flatten(_)
Flatten(pieces) == IF pieces = <<>> THEN <<>> ELSE Head(pieces) \o Flatten(Tail(pieces))

\* the templates of at most MaxPieces pieces with each placeholder exactly once
RenderTemplates ==
    {t \in {Flatten(ps) : ps \in UNION {[1..n -> TemplatePieces] : n \in 4..MaxPieces}} :
        \A ph \in Placeholders : Occurrences(t, ph) = 1}

RenderReadings ==
    [value : {7}, classification : {None, Some(<<>>), Some(<<"Fear">>),
                                    Some(<<"Extreme", " ", "Greed">>),
                                    Some(<<"{{", "date_range", "}}">>)}]

InitRender ==
    /\ pc = "call_generate_html"
    /\ today \in MainDates
    /\ template \in {Some(t) : t \in RenderTemplates}
    /\ environ = NoEnviron
    /\ price_resp = Some(Json(FullData(Some(-32))))
    /\ prices = fetch_crypto_prices(Json(FullData(Some(-32)))).value
    /\ fear_greed \in {Some(r) : r \in RenderReadings}
    /\ week_range = Some(get_week_range(today).ret)
    /\ Untouched

call_generate_html ==
    /\ pc = "call_generate_html"
    /\ LET r == generate_html(Get(template), Get(prices), Get(fear_greed), Get(week_range))
       IN  IF r.ok
           THEN html' = r.value /\ pc' = "returned" /\ exc' = exc
           ELSE html' = html /\ pc' = "raised" /\ exc' = Some(<<r.exc, "generate_html">>)
    /\ UNCHANGED <<today, template, environ, price_resp, prices, fear_greed,
                   last_friday, next_friday, week_range, get_resp, twitter_thread,
                   instagram_caption, files, net, out, exit_code>>

SpecRender == InitRender /\ [][call_generate_html]_vars

\* ---- generate_twitter_thread, generate_instagram_caption ----
Changes == {Some(c) : c \in -MaxChange..MaxChange}

\* price records whose btc, eth, pls and hex changes are the given ones
SocialPrices(cs) ==
    [sym \in Symbols |->
        IF sym \in SocialSymbols
        THEN [price |-> "1.5", change_24h |-> cs[sym], ath |-> "2", atl |-> "1"]
        ELSE [price |-> "1.0", change_24h |-> Some(0), ath |-> "2", atl |-> "1"]]

InitSocial ==
    /\ pc = "call_social"
    /\ today \in MainDates
    /\ template = None
    /\ environ = NoEnviron
    /\ price_resp = None
    /\ prices \in {Some(SocialPrices(cs)) : cs \in [SocialSymbols -> Changes]}
    /\ fear_greed = None
    /\ week_range = Some(get_week_range(today).ret)
    /\ Untouched

call_social ==
    /\ pc = "call_social"
    /\ twitter_thread' = generate_twitter_thread(Get(prices), Get(week_range), environ).value
    /\ instagram_caption' = generate_instagram_caption(Get(prices), Get(week_range)).value
    /\ pc' = "returned"
    /\ UNCHANGED <<today, template, environ, price_resp, prices, fear_greed,
                   last_friday, next_friday, week_range, html, get_resp, files,
                   net, out, exc, exit_code>>

SpecSocial == InitSocial /\ [][call_social]_vars

\* =========================================================================
\* Properties
\* =========================================================================
\* ---- C1 -----------------------------------------------------------------
\* C1: for every current date D, get_week_range's start is the most recent
\* Friday on or before D (a Friday, start <= D, D - start in 0..6 and 0 exactly
\* when D is a Friday, no Friday after start up to D) and its end is start + 7.
C1_WeekRange ==
    last_friday # None =>
        LET start == Get(last_friday)
            end   == Get(next_friday)
        IN  /\ Weekday(start) = 4
            /\ start <= today
            /\ today - start \in 0..6
            /\ (today - start = 0) <=> (Weekday(today) = 4)
            /\ \A d \in (start + 1)..today : Weekday(d) # 4
            /\ end = start + 7

\* a Thursday: the start is six days back, here across a year boundary
C1_Witness ==
    /\ last_friday # None
    /\ today - Get(last_friday) = 6
    /\ Ord2Ymd(today).year # Ord2Ymd(Get(last_friday)).year

\* ---- C5 -----------------------------------------------------------------
\* whether the body omits the field <<id, field>> (or the whole asset)
Omits(data, p) == p[1] \notin DOMAIN data \/ p[2] \notin DOMAIN data[p[1]]

\* TOKEN_MAP restricted to the live assets
LiveId == [btc |-> "bitcoin", eth |-> "ethereum", usdt |-> "tether", dai |-> "dai"]

RecordField ==
    [usd |-> "price", usd_24h_change |-> "change_24h", usd_24h_vol |-> "volume_24h",
     usd_market_cap |-> "market_cap"]

FetchCalled == pc \in {"returned", "raised"} /\ price_resp # None

\* C5 as stated: whenever the response omits any of the sixteen fields of the
\* four live assets the call fails (and a returned record holds the response's
\* values).
C5_FailsOnAnyMissingField ==
    FetchCalled /\ Get(price_resp).kind = "json" =>
        ((\E p \in Lookups : Omits(Get(price_resp).data, p)) => pc = "raised")

\* C5 amended: the call fails exactly when the request raises, the body is not
\* JSON, or the body omits a price, a volume, a market cap, or the 24h change of
\* bitcoin or ethereum; a returned record holds the response's value of every
\* field, except that a missing 24h change of tether or dai is returned as 0.
C5_FailsOnMissingFieldExceptStablecoinChange ==
    FetchCalled =>
        LET resp == Get(price_resp)
            soft == {<<"tether", "usd_24h_change">>, <<"dai", "usd_24h_change">>}
        IN  /\ pc = "raised" <=>
                  \/ resp.kind # "json"
                  \/ \E p \in Lookups \ soft : Omits(resp.data, p)
                  \/ \E id \in {"tether", "dai"} : id \notin DOMAIN resp.data
            /\ pc = "returned" =>
                  \A sym \in DOMAIN LiveId : \A f \in ApiFields :
                      Get(prices)[sym][RecordField[f]] =
                          IF Omits(resp.data, <<LiveId[sym], f>>)
                          THEN Some(0)
                          ELSE resp.data[LiveId[sym]][f]

\* tether's 24h change is missing and the call returns 0 for it
C5_Witness ==
    /\ pc = "returned"
    /\ Omits(Get(price_resp).data, <<"tether", "usd_24h_change">>)
    /\ Get(prices)["usdt"].change_24h = Some(0)

\* ---- C9 -----------------------------------------------------------------
SocialLabel == [btc |-> "BTC", eth |-> "ETH", pls |-> "PLS", hex |-> "HEX"]

\* the last lexeme of the price-movers line of the asset
TwitterIndicator(thread, label) ==
    LET tweet == thread[2]
        line  == tweet[CHOOSE i \in 1..Len(tweet) : tweet[i][1] = label]
    IN  line[Len(line)]

\* the word after the asset's name in the caption
InstagramWord(caption, label) ==
    LET line == caption[CHOOSE i \in 1..Len(caption) :
                            Len(caption[i]) >= 3 /\ caption[i][2] = label]
    IN  line[3]

\* C9: for BTC, ETH, PLS and HEX the indicator depends only on the sign of
\* change_24h, the same in the thread and the caption: negative gives down
\* (red / "down"), positive gives up (green / "up"), and exactly 0 gives up.
C9_ZeroIsUp ==
    pc = "returned" /\ twitter_thread # None /\ instagram_caption # None =>
        \A sym \in SocialSymbols :
            LET c == Get(Get(prices)[sym].change_24h)
            IN  /\ TwitterIndicator(Get(twitter_thread), SocialLabel[sym]) =
                       (IF c < 0 THEN "RED" ELSE "GREEN")
                /\ InstagramWord(Get(instagram_caption), SocialLabel[sym]) =
                       (IF c < 0 THEN "down" ELSE "up")

\* ---- C4 -----------------------------------------------------------------
RemainingPlaceholders(text) == {ph \in Placeholders : Occurrences(text, ph) > 0}

Braces == {"{{", "}}"}

\* the number of brace lexemes of a text
BraceCount(text) == Cardinality({i \in 1..Len(text) : text[i] \in Braces})

\* the template's only braces are those of its four placeholders
OnlyPlaceholderBraces(text) ==
    /\ \A ph \in Placeholders : Occurrences(text, ph) = 1
    /\ BraceCount(text) = 8

BraceFree(text) == BraceCount(text) = 0

\* C4 as stated: for every template with each placeholder exactly once and
\* every input, the document generate_html returns holds no placeholder.
C4_NoPlaceholderLeft ==
    pc = "returned" /\ html # None /\ template # None
        /\ (\A ph \in Placeholders : Occurrences(Get(template), ph) = 1)
        => RemainingPlaceholders(Get(html)) = {}

\* C4 amended: for every template that holds each placeholder exactly once and
\* no other double brace, and every input whose classification label holds no
\* double brace (the prices being numbers), the returned document holds no
\* placeholder.
C4_NoPlaceholderLeftWithoutStrayBraces ==
    pc = "returned" /\ html # None /\ template # None
        /\ OnlyPlaceholderBraces(Get(template))
        /\ BraceFree(Get(Get(fear_greed).classification))
        => RemainingPlaceholders(Get(html)) = {}

\* a rendered document: the label of the reading stands, upper-cased, in it
C4_Witness ==
    /\ pc = "returned"
    /\ html # None
    /\ OnlyPlaceholderBraces(Get(template))
    /\ Get(fear_greed).classification = Some(<<"Fear">>)
    /\ Occurrences(Get(html), <<"FEAR">>) = 1
    /\ Occurrences(Get(html), <<"7">>) >= 1

\* ---- main(): what a state shows of the run --------------------------------
Done == pc = "done"

Reported(msg) == \E i \in 1..Len(out) : out[i][1] = msg

\* the handler reported an exception raised by one of `origins`
RaisedIn(origins) ==
    \E i \in 1..Len(out) : out[i][1] = "Error occurred" /\ out[i][3] \in origins

SocialSteps ==
    {"generate_twitter_thread", "save_twitter_content", "generate_instagram_caption",
     "main: instagram_caption.txt"}

RenderSteps == {"generate_html", "main: index.html"}

Written(name) == files[name] # None

SocialTextWritten == Written("twitter_thread.txt") /\ Written("instagram_caption.txt")

\* the calls to the publishing API, in order
GithubCalls == SelectSeq(net, LAMBDA c : c.host = "api.github.com")

Attempted(host) == \E i \in 1..Len(net) : net[i].host = host

FetchesSucceeded == prices # None /\ fear_greed # None

CredentialAbsent ==
    \E n \in {"GITHUB_TOKEN", "GITHUB_USERNAME"} : environ[n] = None \/ environ[n] = Some("")

C3_AlwaysExitsZero ==
    /\ ~Done => ENABLED Next
    /\ exit_code # None => Done /\ exit_code = Some(0)
    /\ Done => exc = None /\ exit_code = Some(0)
    /\ pc = "return" => exc = None

\* a run whose rendering raised: reported by the handler, exit code 0
C3_Witness ==
    /\ Done
    /\ exit_code = Some(0)
    /\ RaisedIn({"generate_html"})
    /\ Get(fear_greed).classification = None

\* ---- C6 -----------------------------------------------------------------
IsGet(c) == c.method = "GET" /\ c.host = "api.github.com"
IsPut(c) == c.method = "PUT" /\ c.host = "api.github.com"

\* the version token the GET returned: the body's "sha", the empty token when
\* it has none
ReturnedToken == IF "sha" \in DOMAIN Get(get_resp).data THEN Get(get_resp).data["sha"] ELSE ""

\* C6: a deploy_to_github that runs to completion made exactly two calls, the
\* GET then the PUT; the PUT carries the token the GET returned (the empty token
\* when it returned none); no PUT is issued before the GET has returned.
C6_ReadThenWriteWithToken ==
    /\ \A i \in 1..Len(net) :
          IsPut(net[i]) =>
              /\ i > 1 /\ IsGet(net[i - 1])
              /\ get_resp # None /\ Get(get_resp).kind = "json"
              /\ Get(net[i].body).sha = ReturnedToken
    /\ Reported("deployed") \/ Reported("deployment failed") =>
          /\ Len(GithubCalls) = 2
          /\ IsGet(GithubCalls[1]) /\ IsPut(GithubCalls[2])
    /\ Len(GithubCalls) <= 2

\* a completed deployment whose PUT carried the token sha-2 the GET returned
C6_Witness ==
    /\ Reported("deployed")
    /\ Len(GithubCalls) = 2
    /\ Get(get_resp).data = [k \in {"sha"} |-> "sha-2"]
    /\ Get(GithubCalls[2].body).sha = "sha-2"

PublishFailed == GithubCalls # <<>> /\ ~Reported("deployed")

PriceFetchFailed == price_resp # None /\ ~fetch_crypto_prices(Get(price_resp)).ok

SentimentFetchFailed ==
    Attempted("api.alternative.me") /\ fear_greed = None /\ pc # "fetch_fear_greed"

\* C10: when the price fetch or the sentiment fetch fails none of the later
\* steps happens (no file is written, no GET or PUT to the publishing API), and
\* when the price fetch fails the sentiment fetch is never attempted.
C10_FetchFailureAborts ==
    /\ PriceFetchFailed \/ SentimentFetchFailed =>
          /\ \A f \in FileNames : ~Written(f)
          /\ GithubCalls = <<>>
          /\ html = None /\ twitter_thread = None /\ instagram_caption = None
          /\ pc \in {"except", "return", "done"}
    /\ PriceFetchFailed => ~Attempted("api.alternative.me") /\ fear_greed = None

\* a finished run whose price fetch failed on a missing field: one call only
C10_Witness ==
    /\ Done
    /\ PriceFetchFailed
    /\ Get(price_resp).kind = "json"
    /\ Len(net) = 1
    /\ RaisedIn({"fetch_crypto_prices"})

====
